---- MODULE Spec2Model ----
(***************************************************************************)
(* claude-memory-search: ingest.py (log parser, windowed chunker,          *)
(* incremental ingestor) and server.py (memory_search / memory_ingest).    *)
(*                                                                         *)
(* Text is a sequence of one-character strings, so that slicing,           *)
(* stripping, prefix matching and character replacement are computed.      *)
(* The vector store is the set of its entries {id, document, metadata};    *)
(* md5(f"{session_id}:{chunk_index}") is the pair <<session_id, index>>.   *)
(*                                                                         *)
(* Inputs of the model: log files have distinct session ids (file stems);  *)
(* message content is a JSON string or a value without text (no list of    *)
(* typed parts); collection.add is all-or-nothing and leaves an entry      *)
(* whose id exists as it is; model.encode, collection.add and              *)
(* collection.get may raise at any call.                                   *)
(***************************************************************************)
EXTENDS Integers, Sequences, FiniteSets, TLC

VARIABLES
    files,          \* PROJECTS_DIR: file id -> name of its content, or "absent"
    store,          \* the ChromaDB collection: set of entries
    g_model,        \* server.py _model: "None" or "loaded"
    g_collection,   \* server.py _collection: "None" or "open"
    modelLoads,     \* number of SentenceTransformer(...) constructions so far
    storeOpens,     \* number of get_chroma_client()/get_collection() calls so far
    pc,             \* "idle" (between tool calls) or "loop" (inside ingest's for loop)
    ingested,       \* ingest(): ingested
    jsonl_files,    \* ingest(): files of jsonl_files not yet iterated
    counters,       \* ingest(): new_files, new_chunks, skipped, errors
    run,            \* the ingest() call in progress: what it saw and did per file
    lastRaised,     \* the files whose processing raised in the last finished call
    edited,         \* a log file changed since the last ingest() call began
    result,         \* last return value of ingest()
    runs,           \* number of ingest() calls started
    searchOut,      \* last return value of memory_search
    lines,          \* parse_jsonl: the lines of the file read
    parsed,         \* parse_jsonl: its outcome
    messages,       \* create_chunks: its argument
    pairs,          \* create_chunks: pairs
    chunks,         \* create_chunks: its return value
    fpc             \* position of the function under study: "call" or "done"

vars == <<files, store, g_model, g_collection, modelLoads, storeOpens, pc,
          ingested, jsonl_files, counters, run, lastRaised, edited, result, runs,
          searchOut, lines, parsed, messages, pairs, chunks, fpc>>

serverVars == <<g_model, g_collection, modelLoads, storeOpens, searchOut>>
ingestVars == <<pc, ingested, jsonl_files, counters, run, lastRaised, edited,
               result, runs>>
funcVars == <<lines, parsed, messages, pairs, chunks, fpc>>

----------------------------------------------------------------------------
(* Bounds of the model *)

MaxMsgs == 6
MaxLines == 3
MaxTail == 3
MaxRuns == 3
MaxLimit == 1

(* Program constants *)

WINDOW_SIZE == 4
WINDOW_STEP == 2
MAX_CHUNK_CHARS == 2000
MSG_CHARS == 500
MIN_TEXT_LEN == 5
MAX_RESULTS == 20
SESSION_ID_CHARS == 8
CONVERSATION_CHARS == 1500

SKIP_TYPES == {"system", "progress", "file-history-snapshot", "queue-operation"}

----------------------------------------------------------------------------
(* Text helpers *)

Min(a, b) == IF a < b THEN a ELSE b
Max(a, b) == IF a > b THEN a ELSE b

\* Python s[:n]
Take(s, n) == SubSeq(s, 1, Min(n, Len(s)))

\* Python s[n:]
Drop(s, n) == SubSeq(s, Min(n, Len(s)) + 1, Len(s))

RECURSIVE LStrip(_)
LStrip(s) == IF s # <<>> /\ Head(s) \in {" ", "\n"} THEN LStrip(Tail(s)) ELSE s

RECURSIVE RStrip(_)
RStrip(s) ==
    IF s # <<>> /\ s[Len(s)] \in {" ", "\n"} THEN RStrip(SubSeq(s, 1, Len(s) - 1)) ELSE s

\* Python s.strip()
Strip(s) == RStrip(LStrip(s))

\* Python sep.join(parts)
RECURSIVE Join(_, _)
Join(parts, sep) ==
    IF parts = <<>> THEN <<>>
    ELSE IF Len(parts) = 1 THEN parts[1]
    ELSE parts[1] \o sep \o Join(Tail(parts), sep)

UserPrefix == <<"U", "s", "e", "r", ":", " ">>
AssistantPrefix == <<"A", "s", "s", "i", "s", "t", "a", "n", "t", ":", " ">>
Newline == <<"\n">>

----------------------------------------------------------------------------
(* ingest.py: parse_jsonl *)

\* A content value: a JSON string, or any other value / a missing key
NoContent == [kind |-> "missing", text |-> <<>>]
StrContent(t) == [kind |-> "str", text |-> t]

extract_text_from_content(content) ==
    IF content.kind = "str" THEN content.text ELSE <<>>

\* One line of a log file after json.loads:
\*   json = "blank"      the stripped line is empty
\*   json = "malformed"  json.loads raises JSONDecodeError
\*   json = "value"      valid JSON that is not an object (list, number, string, null)
\*   json = "object"     a JSON object with the fields below
\* message.kind = "missing" (no "message" key), "value" (not an object), "object"
NoMessage == [kind |-> "missing", role |-> "", content |-> NoContent]
ValueMessage == [kind |-> "value", role |-> "", content |-> NoContent]
ObjMessage(role, content) == [kind |-> "object", role |-> role, content |-> content]

Line(json, type, message, hasContent, content, timestamp) ==
    [json |-> json, type |-> type, message |-> message,
     hasContent |-> hasContent, content |-> content, timestamp |-> timestamp]

\* What one iteration of the loop over the file's lines does:
\* "skip" (continue), "raise" (an exception leaves parse_jsonl), "append"
LineStep(obj) ==
    IF obj.json = "blank" THEN "skip"
    ELSE IF obj.json = "malformed" THEN "skip"
    ELSE IF obj.json = "value" THEN "raise"                  \* obj.get: AttributeError
    ELSE IF obj.type \in SKIP_TYPES THEN "skip"
    ELSE IF obj.type \notin {"user", "assistant"} THEN "skip"
    ELSE IF obj.message.kind = "value" THEN "raise"          \* msg.get: AttributeError
    ELSE IF obj.message.kind = "missing" /\ ~obj.hasContent THEN "skip"
    ELSE LET content == IF obj.message.kind = "object"
                        THEN obj.message.content ELSE obj.content
             text == extract_text_from_content(content)
         IN IF text = <<>> \/ Len(Strip(text)) < MIN_TEXT_LEN THEN "skip" ELSE "append"

LineMessage(obj, session_id) ==
    LET fromMsg == obj.message.kind = "object"
    IN [role |-> IF fromMsg /\ obj.message.role # "" THEN obj.message.role ELSE obj.type,
        text |-> extract_text_from_content(
                     IF fromMsg THEN obj.message.content ELSE obj.content),
        timestamp |-> obj.timestamp,
        session_id |-> session_id]

RECURSIVE ParseFrom(_, _, _, _)
ParseFrom(fileLines, i, acc, session_id) ==
    IF i > Len(fileLines) THEN [raised |-> FALSE, messages |-> acc]
    ELSE LET step == LineStep(fileLines[i])
         IN IF step = "raise" THEN [raised |-> TRUE, messages |-> <<>>]
            ELSE IF step = "skip" THEN ParseFrom(fileLines, i + 1, acc, session_id)
            ELSE ParseFrom(fileLines, i + 1,
                           Append(acc, LineMessage(fileLines[i], session_id)), session_id)

parse_jsonl(fileLines, session_id) == ParseFrom(fileLines, 1, <<>>, session_id)

----------------------------------------------------------------------------
(* ingest.py: create_chunks *)

\* Python None in the assistant slot of a pair
NoneMsg == [role |-> "None", text |-> <<>>, timestamp |-> 0, session_id |-> <<>>]

\* The while loop of create_chunks from position i (1-based here)
RECURSIVE PairsFromSkipTwo(_, _)
PairsFromSkipTwo(msgs, i) ==
    IF i > Len(msgs) THEN <<>>
    ELSE IF msgs[i].role = "user"
         THEN IF i + 1 <= Len(msgs) /\ msgs[i + 1].role = "assistant"
              THEN <<<<msgs[i], msgs[i + 1]>>>> \o PairsFromSkipTwo(msgs, i + 2)
              ELSE <<<<msgs[i], NoneMsg>>>> \o PairsFromSkipTwo(msgs, i + 2)
         ELSE PairsFromSkipTwo(msgs, i + 1)

RECURSIVE PairsFrom(_, _)
PairsFrom(msgs, i) ==
    IF i > Len(msgs) THEN <<>>
    ELSE IF msgs[i].role = "user"
         THEN IF i + 1 <= Len(msgs) /\ msgs[i + 1].role = "assistant"
              THEN <<<<msgs[i], msgs[i + 1]>>>> \o PairsFrom(msgs, i + 2)
              ELSE <<<<msgs[i], NoneMsg>>>> \o PairsFrom(msgs, i + 1)
         ELSE PairsFrom(msgs, i + 1)

MakePairs(msgs) == PairsFrom(msgs, 1)

\* lines of one window: "User: ..." and, when present, "Assistant: ..."
RECURSIVE WindowLines(_)
WindowLines(window) ==
    IF window = <<>> THEN <<>>
    ELSE LET user_msg == window[1][1]
             assistant_msg == window[1][2]
         IN <<UserPrefix \o Take(user_msg.text, MSG_CHARS)>>
            \o (IF assistant_msg # NoneMsg
                THEN <<AssistantPrefix \o Take(assistant_msg.text, MSG_CHARS)>>
                ELSE <<>>)
            \o WindowLines(Tail(window))

ChunkId(session_id, chunk_index) == <<session_id, chunk_index>>

MakeChunk(window, chunk_index, session_id, project_path) ==
    [id |-> ChunkId(session_id, chunk_index),
     text |-> Take(Join(WindowLines(window), Newline), MAX_CHUNK_CHARS),
     metadata |-> [session_id |-> session_id,
                   project_path |-> project_path,
                   timestamp |-> window[1][1].timestamp,
                   chunk_index |-> chunk_index]]

\* range(0, len(pairs), WINDOW_STEP) continues from `start` while start < stop
FullWindowsStop(n) == n - WINDOW_SIZE + 1
WindowsStop(n) == n

RECURSIVE ChunksFrom(_, _, _, _, _)
ChunksFrom(prs, start, chunk_index, session_id, project_path) ==
    IF start >= WindowsStop(Len(prs)) THEN <<>>
    ELSE LET end == Min(start + WINDOW_SIZE, Len(prs))
             window == SubSeq(prs, start + 1, end)
         IN IF window = <<>> THEN <<>>
            ELSE <<MakeChunk(window, chunk_index, session_id, project_path)>>
                 \o ChunksFrom(prs, start + WINDOW_STEP, chunk_index + 1,
                               session_id, project_path)

create_chunks(msgs, session_id, project_path) ==
    LET prs == MakePairs(msgs)
    IN IF prs = <<>> THEN <<>> ELSE ChunksFrom(prs, 0, 0, session_id, project_path)

----------------------------------------------------------------------------
(* ingest.py: the store, get_ingested_sessions, find_jsonl_files *)

\* collection.add(ids, embeddings, documents, metadatas): one entry per chunk;
\* an id already in the collection is left as it is
CollectionAdd(collection, newChunks) ==
    collection \cup
        {[id |-> newChunks[i].id, document |-> newChunks[i].text,
          metadata |-> newChunks[i].metadata] :
            i \in {j \in 1..Len(newChunks) :
                     \A e \in collection : e.id # newChunks[j].id}}

\* getRaises: collection.get(include=["metadatas"]) raised, or a metadata was None
get_ingested_sessions(collection, getRaises) ==
    IF getRaises THEN {}
    ELSE {e.metadata.session_id : e \in collection}

find_jsonl_files(projects) == {f \in DOMAIN projects : projects[f] # "absent"}

----------------------------------------------------------------------------
(* The log files of the model *)

S1 == <<"a", "1", "b", "2", "c", "3", "d", "4", "-", "1">>
S2 == <<"a", "1", "b", "2", "c", "3", "d", "4", "-", "2">>
MachinePrefix == <<"-", "m", "n", "t", "-", "c", "-", "U", "s", "e", "r", "s", "-">>
PathA == MachinePrefix \o <<"a", "l", "-", "r", "e", "p", "o">>
PathB == <<"-", "h", "o", "m", "e", "-", "b", "o", "b", "-", "x">>

F1 == [project_path |-> PathA, session_id |-> S1]
F2 == [project_path |-> PathB, session_id |-> S2]
FileIds == {F1, F2}

Hello == <<"h", "e", "l", "l", "o">>
Fixed == <<"f", "i", "x", "e", "d", " ", "i", "t">>
Padded == <<" ", "o", "k", " ", " ", " ">>

UserLine(t) == Line("object", "user", ObjMessage("user", StrContent(Hello)), FALSE, NoContent, t)
AssistantLine(t) ==
    Line("object", "assistant", ObjMessage("assistant", StrContent(Fixed)), FALSE, NoContent, t)
FlatUserLine(t) == Line("object", "user", NoMessage, TRUE, StrContent(Hello), t)
ShortLine(t) == Line("object", "user", ObjMessage("user", StrContent(Padded)), FALSE, NoContent, t)
SystemLine(t) == Line("object", "system", ObjMessage("", StrContent(Hello)), FALSE, NoContent, t)
NoShapeLine(t) == Line("object", "user", NoMessage, FALSE, NoContent, t)
ValueMessageLine(t) == Line("object", "user", ValueMessage, FALSE, NoContent, t)
MalformedLine(t) == Line("malformed", "", NoMessage, FALSE, NoContent, t)
ValueLine(t) == Line("value", "", NoMessage, FALSE, NoContent, t)
BlankLine(t) == Line("blank", "", NoMessage, FALSE, NoContent, t)

LineKinds == {"user", "assistant", "flat", "short", "system", "noshape",
              "valuemessage", "malformed", "value", "blank"}

MakeLine(kind, t) ==
    CASE kind = "user" -> UserLine(t)
      [] kind = "assistant" -> AssistantLine(t)
      [] kind = "flat" -> FlatUserLine(t)
      [] kind = "short" -> ShortLine(t)
      [] kind = "system" -> SystemLine(t)
      [] kind = "noshape" -> NoShapeLine(t)
      [] kind = "valuemessage" -> ValueMessageLine(t)
      [] kind = "malformed" -> MalformedLine(t)
      [] kind = "value" -> ValueLine(t)
      [] OTHER -> BlankLine(t)

LinesOf(kinds) == [i \in 1..Len(kinds) |-> MakeLine(kinds[i], i)]

\* What each log file can hold ("absent": there is no such file)
ContentNames(f) ==
    IF f = F1 THEN {"short", "long", "value", "absent"}
    ELSE {"empty", "short", "noise", "absent"}

FileStates == {fs \in [FileIds -> {"empty", "short", "long", "value", "noise", "absent"}] :
                 \A f \in FileIds : fs[f] \in ContentNames(f)}

\* "long" is "short" after the session went on
FileLines(name) ==
    CASE name = "short" -> LinesOf(<<"user", "assistant">>)
      [] name = "long" -> LinesOf(<<"user", "assistant", "malformed", "user",
                                    "assistant", "flat", "assistant">>)
      [] name = "value" -> LinesOf(<<"user", "value", "assistant">>)
      [] name = "noise" -> LinesOf(<<"malformed", "assistant", "noshape">>)
      [] OTHER -> <<>>

----------------------------------------------------------------------------
(* ingest.py: ingest() *)

ZeroCounters == [new_files |-> 0, new_chunks |-> 0, skipped |-> 0, errors |-> 0]

\* The body of ingest's for loop for one file: what happens to it, and the
\* chunks it hands to collection.add.
\*   fault = "encode": model.encode raises; fault = "add": collection.add raises
\*   what = "ingested" (session id in ingested), "empty" (no message or no chunk),
\*          "added", "raised" (the except branch)
FileOutcome(f, name, ingestedIds, fault) ==
    IF f.session_id \in ingestedIds THEN [what |-> "ingested", chunks |-> <<>>]
    ELSE LET p == parse_jsonl(FileLines(name), f.session_id)
         IN IF p.raised THEN [what |-> "raised", chunks |-> <<>>]
            ELSE IF p.messages = <<>> THEN [what |-> "empty", chunks |-> <<>>]
            ELSE LET cs == create_chunks(p.messages, f.session_id, f.project_path)
                 IN IF cs = <<>> THEN [what |-> "empty", chunks |-> <<>>]
                    ELSE IF fault # "none" THEN [what |-> "raised", chunks |-> <<>>]
                    ELSE [what |-> "added", chunks |-> cs]

\* Mutants of Count: an except branch that does not count; an empty file
\* that is passed over without being counted
CountSwallowErrors(c, what, n) ==
    CASE what = "ingested" -> [c EXCEPT !.skipped = @ + 1]
      [] what = "empty" -> [c EXCEPT !.skipped = @ + 1]
      [] what = "added" -> [c EXCEPT !.new_files = @ + 1, !.new_chunks = @ + n]
      [] OTHER -> c

CountForgetEmpty(c, what, n) ==
    CASE what = "ingested" -> [c EXCEPT !.skipped = @ + 1]
      [] what = "empty" -> c
      [] what = "added" -> [c EXCEPT !.new_files = @ + 1, !.new_chunks = @ + n]
      [] OTHER -> [c EXCEPT !.errors = @ + 1]

\* new_files, new_chunks, skipped, errors after one file
Count(c, what, n) ==
    CASE what = "ingested" -> [c EXCEPT !.skipped = @ + 1]
      [] what = "empty" -> [c EXCEPT !.skipped = @ + 1]
      [] what = "added" -> [c EXCEPT !.new_files = @ + 1, !.new_chunks = @ + n]
      [] OTHER -> [c EXCEPT !.errors = @ + 1]

\* Mutant of RemainingAfter: no try/except, the exception ends the loop
RemainingAbortOnRaise(todo, f, what) ==
    IF what = "raised" THEN {} ELSE todo \ {f}

\* The files the for loop still has to iterate after f
RemainingAfter(todo, f, what) == todo \ {f}

NoRun == [valid |-> FALSE, scanFailed |-> FALSE, sameFiles |-> FALSE,
          storeAtStart |-> {}, raisedBefore |-> {},
          what |-> [f \in FileIds |-> "none"]]
NoResult == [valid |-> FALSE, new_files |-> 0, new_chunks |-> 0, skipped |-> 0,
             errors |-> 0, total_in_collection |-> 0]

\* no tool call has returned a search response since the last call began
NoSearch == [called |-> FALSE, error |-> FALSE, total_indexed |-> 0, results |-> <<>>]

\* ingest() up to the for loop (also the start of memory_ingest).
\* run records what this call saw: the store at its start, whether the files
\* are as the call before left them, which files raised in the call before.
IngestStart(getRaises) ==
    /\ pc = "idle"
    /\ runs < MaxRuns
    /\ runs' = runs + 1
    /\ modelLoads' = modelLoads + 1
    /\ storeOpens' = storeOpens + 1
    /\ ingested' = get_ingested_sessions(store, getRaises)
    /\ jsonl_files' = find_jsonl_files(files)
    /\ counters' = ZeroCounters
    /\ run' = [valid |-> TRUE, scanFailed |-> getRaises,
               sameFiles |-> result.valid /\ ~edited,
               storeAtStart |-> store,
               raisedBefore |-> lastRaised,
               what |-> [f \in FileIds |->
                           IF f \in find_jsonl_files(files) THEN "pending" ELSE "none"]]
    /\ edited' = FALSE
    /\ pc' = "loop"
    /\ searchOut' = NoSearch
    /\ UNCHANGED <<files, store, g_model, g_collection, result, lastRaised>>
    /\ UNCHANGED funcVars

\* one iteration of the for loop
ProcessFile(f, fault) ==
    /\ pc = "loop"
    /\ f \in jsonl_files
    /\ LET o == FileOutcome(f, files[f], ingested, fault)
       IN /\ store' = IF o.what = "added" THEN CollectionAdd(store, o.chunks) ELSE store
          /\ counters' = Count(counters, o.what, Len(o.chunks))
          /\ jsonl_files' = RemainingAfter(jsonl_files, f, o.what)
          /\ run' = [run EXCEPT !.what[f] = o.what]
    /\ UNCHANGED <<files, g_model, g_collection, modelLoads, storeOpens, pc, ingested,
                   result, runs, searchOut, edited, lastRaised>>
    /\ UNCHANGED funcVars

\* the loop is over: build and return the result (the locals are gone)
IngestReturn ==
    /\ pc = "loop"
    /\ jsonl_files = {}
    /\ result' = [valid |-> TRUE, new_files |-> counters.new_files, new_chunks |-> counters.new_chunks,
                  skipped |-> counters.skipped, errors |-> counters.errors,
                  total_in_collection |-> Cardinality(store)]
    /\ pc' = "idle"
    /\ ingested' = {}
    /\ counters' = ZeroCounters
    /\ lastRaised' = {f \in FileIds : run.what[f] = "raised"}
    /\ run' = NoRun
    /\ UNCHANGED <<files, store, g_model, g_collection, modelLoads, storeOpens,
                   jsonl_files, runs, searchOut, edited>>
    /\ UNCHANGED funcVars

\* A session writes to its log, a log appears or is deleted (between tool calls)
EditFile(f, name) ==
    /\ pc = "idle"
    /\ files[f] # name
    /\ files' = [files EXCEPT ![f] = name]
    /\ edited' = TRUE
    /\ UNCHANGED <<store, pc, ingested, jsonl_files, counters, run, result, runs,
                   lastRaised>>
    /\ UNCHANGED serverVars
    /\ UNCHANGED funcVars

----------------------------------------------------------------------------
(* server.py *)

\* _get_model / _get_collection: construct on first use, then reuse
GetModelLoads(m, loads) == IF m = "None" THEN loads + 1 ELSE loads
GetCollectionOpens(c, opens) == IF c = "None" THEN opens + 1 ELSE opens

\* length of the run of characters other than "-" at the start of s
RECURSIVE SegmentLen(_)
SegmentLen(s) == IF s = <<>> \/ Head(s) = "-" THEN 0 ELSE 1 + SegmentLen(Tail(s))

\* re.sub(r"^-mnt-c-Users-[^-]+-", "", project)
StripMachinePrefix(project) ==
    IF Take(project, Len(MachinePrefix)) # MachinePrefix THEN project
    ELSE LET rest == Drop(project, Len(MachinePrefix))
             k == SegmentLen(rest)
         IN IF k >= 1 /\ k < Len(rest) THEN Drop(rest, k + 1) ELSE project

\* Mutant of HyphensToSlashes: the replace is not applied
HyphensKept(s) == s

\* project.replace("-", "/")
HyphensToSlashes(s) == [i \in 1..Len(s) |-> IF s[i] = "-" THEN "/" ELSE s[i]]

FormatProject(project_path) == HyphensToSlashes(StripMachinePrefix(project_path))

Ellipsis == <<".", ".", ".">>

FormatResult(e) ==
    [project |-> FormatProject(e.metadata.project_path),
     session_id |-> Take(e.metadata.session_id, SESSION_ID_CHARS) \o Ellipsis,
     timestamp |-> e.metadata.timestamp,
     conversation |-> Take(e.document, CONVERSATION_CHARS)]

\* memory_search(query, limit); hits: what collection.query returns, nearest
\* first (the embedding decides which entries and in which order). The score
\* (1 - distance) is not part of the model.
memory_search(limit, hits) ==
    /\ pc = "idle"
    /\ g_model' = "loaded"
    /\ modelLoads' = GetModelLoads(g_model, modelLoads)
    /\ g_collection' = "open"
    /\ storeOpens' = GetCollectionOpens(g_collection, storeOpens)
    /\ IF Cardinality(store) = 0
       THEN /\ hits = <<>>
            /\ searchOut' = [called |-> TRUE, error |-> TRUE, total_indexed |-> 0,
                             results |-> <<>>]
       ELSE /\ Len(hits) = Min(Min(limit, MAX_RESULTS), Cardinality(store))
            /\ \A i \in 1..Len(hits) : hits[i] \in store
            /\ \A i, j \in 1..Len(hits) : i # j => hits[i] # hits[j]
            /\ searchOut' = [called |-> TRUE, error |-> FALSE,
                             total_indexed |-> Cardinality(store),
                             results |-> [i \in 1..Len(hits) |-> FormatResult(hits[i])]]
    /\ UNCHANGED <<files, store>>
    /\ UNCHANGED ingestVars
    /\ UNCHANGED funcVars

HitLists == UNION {[1..n -> store] : n \in 0..Min(MaxLimit, Cardinality(store))}

----------------------------------------------------------------------------
(* The server process: memory_ingest and memory_search calls, one at a time, *)
(* over log files that change between calls                                  *)

FuncIdle ==
    /\ lines = <<>>
    /\ parsed = [raised |-> FALSE, messages |-> <<>>]
    /\ messages = <<>>
    /\ pairs = <<>>
    /\ chunks = <<>>
    /\ fpc = "idle"

ServerFresh ==
    /\ g_model = "None"
    /\ g_collection = "None"
    /\ modelLoads = 0
    /\ storeOpens = 0
    /\ searchOut = NoSearch

IngestIdle ==
    /\ pc = "idle"
    /\ ingested = {}
    /\ jsonl_files = {}
    /\ counters = ZeroCounters
    /\ run = NoRun
    /\ lastRaised = {}
    /\ edited = FALSE
    /\ result = NoResult
    /\ runs = 0

Init ==
    /\ files \in FileStates
    /\ store = {}
    /\ ServerFresh
    /\ IngestIdle
    /\ FuncIdle

Next ==
    \/ \E getRaises \in BOOLEAN : IngestStart(getRaises)
    \/ \E f \in FileIds, fault \in {"none", "encode", "add"} : ProcessFile(f, fault)
    \/ IngestReturn
    \/ \E limit \in 1..MaxLimit, hits \in HitLists : memory_search(limit, hits)
    \/ \E f \in FileIds : \E name \in ContentNames(f) : EditFile(f, name)

Spec == Init /\ [][Next]_vars

----------------------------------------------------------------------------
(* create_chunks on its own: every message sequence up to MaxMsgs *)

Roles == {"user", "assistant", "system"}

Msg(role, i) ==
    [role |-> role, text |-> IF role = "user" THEN Hello ELSE Fixed,
     timestamp |-> i, session_id |-> S1]

MessageInputs ==
    UNION {{[i \in 1..n |-> Msg(r[i], i)] : r \in [1..n -> Roles]} : n \in 0..MaxMsgs}

NoFiles == [f \in FileIds |-> "absent"]

InitChunk ==
    /\ messages \in MessageInputs
    /\ lines = <<>>
    /\ parsed = [raised |-> FALSE, messages |-> <<>>]
    /\ pairs = <<>>
    /\ chunks = <<>>
    /\ fpc = "call"
    /\ files = NoFiles
    /\ store = {}
    /\ ServerFresh
    /\ IngestIdle

CallCreateChunks ==
    /\ fpc = "call"
    /\ pairs' = MakePairs(messages)
    /\ chunks' = create_chunks(messages, S1, PathA)
    /\ fpc' = "done"
    /\ UNCHANGED <<files, store, lines, parsed, messages>>
    /\ UNCHANGED serverVars
    /\ UNCHANGED ingestVars

SpecChunk == InitChunk /\ [][CallCreateChunks]_vars

----------------------------------------------------------------------------
(* parse_jsonl on its own: every file of up to MaxLines lines *)

LineInputs ==
    UNION {{LinesOf(k) : k \in [1..n -> LineKinds]} : n \in 0..MaxLines}

InitParse ==
    /\ lines \in LineInputs
    /\ parsed = [raised |-> FALSE, messages |-> <<>>]
    /\ messages = <<>>
    /\ pairs = <<>>
    /\ chunks = <<>>
    /\ fpc = "call"
    /\ files = NoFiles
    /\ store = {}
    /\ ServerFresh
    /\ IngestIdle

CallParseJsonl ==
    /\ fpc = "call"
    /\ parsed' = parse_jsonl(lines, S1)
    /\ fpc' = "done"
    /\ UNCHANGED <<files, store, lines, messages, pairs, chunks>>
    /\ UNCHANGED serverVars
    /\ UNCHANGED ingestVars

SpecParse == InitParse /\ [][CallParseJsonl]_vars

----------------------------------------------------------------------------
(* memory_search over a store holding one chunk, for every project path of *)
(* PathInputs                                                              *)

AlicePath == MachinePrefix \o <<"a", "l", "i", "c", "e", "-", "m", "y", "r", "e", "p", "o">>

PathHeads ==
    {<<>>, MachinePrefix,
     <<"-", "m", "n", "t", "-", "c", "-", "u", "s", "e", "r", "s", "-">>,
     <<"x", "-", "m", "n", "t", "-", "c", "-", "U", "s", "e", "r", "s", "-">>,
     <<"-", "h", "o", "m", "e", "-">>,
     MachinePrefix \o <<"a", "l">>}

PathTails == UNION {[1..n -> {"-", "a", "b"}] : n \in 0..MaxTail}

PathInputs == {h \o t : h \in PathHeads, t \in PathTails} \cup {AlicePath}

StoreOfOne(project_path) ==
    CollectionAdd({}, create_chunks(parse_jsonl(FileLines("short"), S1).messages,
                                    S1, project_path))

InitSearch ==
    /\ \E p \in PathInputs : store = StoreOfOne(p)
    /\ files = NoFiles
    /\ ServerFresh
    /\ IngestIdle
    /\ FuncIdle

NextSearch == \E limit \in 1..MaxLimit, hits \in HitLists : memory_search(limit, hits)

SpecSearch == InitSearch /\ [][NextSearch]_vars

----------------------------------------------------------------------------
(* Properties *)

\* the for loop of ingest() is over and the result is about to be returned
RunEnds == pc = "loop" /\ jsonl_files = {}

Enumerated == find_jsonl_files(files)

SessionsIn(collection) == {e.metadata.session_id : e \in collection}

EntriesOf(collection, session_id) == {e \in collection : e.metadata.session_id = session_id}

\* the chunks the file f yields now (no chunk when it cannot be parsed)
FileChunks(f) ==
    LET p == parse_jsonl(FileLines(files[f]), f.session_id)
    IN IF p.raised THEN <<>> ELSE create_chunks(p.messages, f.session_id, f.project_path)

EntryOf(c) == [id |-> c.id, document |-> c.text, metadata |-> c.metadata]

RECURSIVE SumChunks(_)
SumChunks(fs) ==
    IF fs = {} THEN 0
    ELSE LET f == CHOOSE x \in fs : TRUE
         IN Len(FileChunks(f)) + SumChunks(fs \ {f})

CeilDiv(a, b) == (a + b - 1) \div b

C2_ChunkCountClaimed ==
    fpc = "done" =>
        Len(chunks) = IF Len(pairs) = 0 THEN 0
                      ELSE CeilDiv(Max(Len(pairs) - 4, 0), 2) + 1

\* C2 (amended): create_chunks emits ceil(N / 2) chunks for N pairs, with
\* chunk_index 0, 1, ... in order.
C2_ChunkCount ==
    fpc = "done" =>
        /\ Len(chunks) = CeilDiv(Len(pairs), 2)
        /\ \A k \in 1..Len(chunks) : chunks[k].metadata.chunk_index = k - 1

\* five pairs or more, three chunks or more
C2_Witness == fpc = "done" /\ Len(pairs) >= 5 /\ Len(chunks) >= 3

\* C3: at the end of an ingest() run, errors is the number of files whose
\* processing raised, and every file that did not raise itself, whose session
\* had no chunk in the store when the run began and that yields a chunk has
\* all its chunks in the store.
C3_FileIsolation ==
    RunEnds =>
        /\ counters.errors = Cardinality({f \in FileIds : run.what[f] = "raised"})
        /\ \A f \in Enumerated :
             (/\ run.what[f] # "raised"
              /\ f.session_id \notin SessionsIn(run.storeAtStart)
              /\ FileChunks(f) # <<>>)
             => \A i \in 1..Len(FileChunks(f)) : EntryOf(FileChunks(f)[i]) \in store

\* one file raised and another, new one was added in the same run
C3_Witness ==
    /\ RunEnds
    /\ \E f, g \in Enumerated :
         /\ run.what[f] = "raised"
         /\ run.what[g] = "added"
         /\ g.session_id \notin SessionsIn(run.storeAtStart)
         /\ EntryOf(FileChunks(g)[1]) \in store

\* C4 (as claimed): a file whose processing raised leaves no chunk of its
\* session in the store, and in the next run its session id is not in ingested
\* and the file is not skipped as ingested.
C4_FailedFileRetried ==
    /\ RunEnds =>
         \A f \in FileIds : run.what[f] = "raised" => EntriesOf(store, f.session_id) = {}
    /\ pc = "loop" =>
         \A f \in run.raisedBefore \cap Enumerated :
             f.session_id \notin ingested /\ run.what[f] # "ingested"

\* C5 (as claimed): a run leaves the entries of every session that had a chunk
\* in the store at its start as they were, and counts the session's file as
\* skipped.
C5_IngestedSessionUntouched ==
    RunEnds =>
        \A f \in Enumerated :
            f.session_id \in SessionsIn(run.storeAtStart) =>
                /\ run.what[f] = "ingested"
                /\ EntriesOf(store, f.session_id) = EntriesOf(run.storeAtStart, f.session_id)

\* C6 (as claimed): parse_jsonl raises on no line, and returns one message for
\* each line that holds a user or assistant message of 5 characters or more.
C6_BadLinesSkipped ==
    fpc = "done" =>
        /\ ~parsed.raised
        /\ Len(parsed.messages) =
              Cardinality({i \in 1..Len(lines) : LineStep(lines[i]) = "append"})

\* p is -mnt-c-Users-<name>-<rest>, <name> being n characters, none a hyphen
HasMachinePrefix(p, n) ==
    /\ n >= 1
    /\ Len(p) >= Len(MachinePrefix) + n + 1
    /\ SubSeq(p, 1, Len(MachinePrefix)) = MachinePrefix
    /\ \A i \in (Len(MachinePrefix) + 1)..(Len(MachinePrefix) + n) : p[i] # "-"
    /\ p[Len(MachinePrefix) + n + 1] = "-"

\* r is s with every hyphen turned into a slash
IsSlashed(r, s) ==
    /\ Len(r) = Len(s)
    /\ \A i \in 1..Len(s) : r[i] = IF s[i] = "-" THEN "/" ELSE s[i]

\* the project_path of the one entry of the store
StoredPath == (CHOOSE e \in store : TRUE).metadata.project_path

ReportedProjects == {searchOut.results[i].project : i \in 1..Len(searchOut.results)}

\* C7 (as claimed): memory_search reports a project_path without the machine
\* prefix unchanged, and one with it stripped of the prefix and with its
\* remaining hyphens turned into slashes.
C7_ProjectClaimed ==
    (searchOut.called /\ ~searchOut.error) =>
        \A r \in ReportedProjects :
            IF \E n \in 1..Len(StoredPath) : HasMachinePrefix(StoredPath, n)
            THEN \E n \in 1..Len(StoredPath) :
                    /\ HasMachinePrefix(StoredPath, n)
                    /\ IsSlashed(r, SubSeq(StoredPath, Len(MachinePrefix) + n + 2,
                                           Len(StoredPath)))
            ELSE r = StoredPath

\* C7 (amended): memory_search reports a project_path without the machine
\* prefix with every hyphen turned into a slash, and one with it stripped of
\* the prefix and with its remaining hyphens turned into slashes.
C7_Project ==
    (searchOut.called /\ ~searchOut.error) =>
        \A r \in ReportedProjects :
            IF \E n \in 1..Len(StoredPath) : HasMachinePrefix(StoredPath, n)
            THEN \E n \in 1..Len(StoredPath) :
                    /\ HasMachinePrefix(StoredPath, n)
                    /\ IsSlashed(r, SubSeq(StoredPath, Len(MachinePrefix) + n + 2,
                                           Len(StoredPath)))
            ELSE IsSlashed(r, StoredPath)

\* a path without the machine prefix that holds a hyphen was reported
C7_Witness ==
    /\ searchOut.called /\ ~searchOut.error
    /\ Len(searchOut.results) = 1
    /\ ~ \E n \in 1..Len(StoredPath) : HasMachinePrefix(StoredPath, n)
    /\ \E i \in 1..Len(StoredPath) : StoredPath[i] = "-"

UserPositions == {i \in 1..Len(messages) : messages[i].role = "user"}

\* C8: every user message is the user of exactly one pair, in input order; the
\* pair's assistant is the next message when that is an assistant message and
\* None otherwise; an assistant message that does not follow a user message is
\* in no pair; no assistant message is in two pairs.
C8_Pairing ==
    fpc = "done" =>
        /\ Len(pairs) = Cardinality(UserPositions)
        /\ \A k \in 1..Len(pairs) :
             LET i == pairs[k][1].timestamp
             IN /\ i \in UserPositions
                /\ pairs[k][1] = messages[i]
                /\ pairs[k][2] = IF i + 1 <= Len(messages)
                                    /\ messages[i + 1].role = "assistant"
                                 THEN messages[i + 1] ELSE NoneMsg
        /\ \A k, l \in 1..Len(pairs) :
             k < l => /\ pairs[k][1].timestamp < pairs[l][1].timestamp
                      /\ (pairs[k][2] # NoneMsg => pairs[k][2] # pairs[l][2])
        /\ \A j \in 1..Len(messages) :
             (/\ messages[j].role = "assistant"
              /\ (j = 1 \/ messages[j - 1].role # "user"))
             => \A k \in 1..Len(pairs) : pairs[k][2] # messages[j]

\* an assistant message came first and was dropped, one pair has an assistant
\* and one has none
C8_Witness ==
    /\ fpc = "done"
    /\ Len(messages) >= 1 /\ messages[1].role = "assistant"
    /\ \E k, l \in 1..Len(pairs) : pairs[k][2] # NoneMsg /\ pairs[l][2] = NoneMsg

\* C9 (as claimed): the server process constructs the embedding model at most
\* once and opens the store at most once.
C9_Singletons == modelLoads <= 1 /\ storeOpens <= 1

\* C10: inside the for loop every file iterated so far is counted in exactly
\* one of new_files, skipped and errors, so at the end of the run their sum is
\* the number of enumerated files; new_chunks is the sum of the chunk counts of
\* the files counted in new_files.
C10_Counters ==
    pc = "loop" =>
        /\ counters.new_files = Cardinality({f \in FileIds : run.what[f] = "added"})
        /\ counters.skipped =
              Cardinality({f \in FileIds : run.what[f] \in {"ingested", "empty"}})
        /\ counters.errors = Cardinality({f \in FileIds : run.what[f] = "raised"})
        /\ counters.new_files + counters.skipped + counters.errors
              = Cardinality(Enumerated \ jsonl_files)
        /\ counters.new_chunks = SumChunks({f \in FileIds : run.what[f] = "added"})

\* a run ends with one file added (two chunks) and one file skipped
C10_Witness ==
    /\ RunEnds
    /\ counters.new_files = 1 /\ counters.skipped = 1 /\ counters.new_chunks = 2

====
